---------------------------- MODULE Spec2Model ----------------------------
(***************************************************************************)
(* State-machine model of the OCR + classification prototype               *)
(* (src/ocr_classifier): the OCR engine (ocr.py), the CamemBERT classifier *)
(* (classifier.py) and the document processing pipeline (pipeline.py).     *)
(*                                                                         *)
(* Conventions                                                             *)
(*  - a Python str is a sequence of one-character strings;                 *)
(*  - Python's None is the empty tuple <<>> (NoneValue);                   *)
(*  - a Python float that is a mean is the exact reduced fraction          *)
(*    <<numerator, denominator>>, so 92.0 is <<92, 1>>;                    *)
(*  - a raised exception is the name of its Python class; "ok" is a        *)
(*    normal return.                                                       *)
(***************************************************************************)
EXTENDS Integers, Sequences, FiniteSets, TLC

VARIABLES
    pytesseract,        \* ocr.py 15-20: TRUE iff the import succeeded (else the name is None)
    convert_from_path,  \* ocr.py 22-25: TRUE iff pdf2image was imported (else None)
    engine,             \* the OCREngine instance: NoneValue before a successful __init__
    ocr,                \* the last call on the OCR engine and what it returned or raised
    clf,                \* the CamembertClassifier instances: their attributes
    disk,               \* the directories save and load use: the artifacts each holds
    call,               \* the last call on a classifier and what it returned or raised
    savedFrom,          \* per directory, the attributes its artifacts were saved from
    pipe                \* the last call on the pipeline: its progress and its outcome

ocrVars == <<pytesseract, convert_from_path, engine, ocr>>

clfVars == <<clf, disk, call, savedFrom>>

vars == <<pytesseract, convert_from_path, engine, ocr, clf, disk, call, savedFrom, pipe>>

-----------------------------------------------------------------------------
(* Bounds of the model.                                                    *)

\* most documents in one bulk_process call
MaxDocs == 3

\* most tokens the recognizer reports for a page
MaxTokens == 2

\* longest label list a classifier is constructed with
MaxLabels == 2

\* longest page sequence (pages of a PDF, pages handed to the aggregators)
MaxPages == 2

\* most examples in a data set handed to evaluate
MaxExamples == 2

-----------------------------------------------------------------------------
(* Strings and numbers.                                                    *)

NoneValue == <<>>

NL == "\n"

RECURSIVE Concat(_)
\* the concatenation of a sequence of strings
Concat(ss) == IF ss = <<>> THEN <<>> ELSE Head(ss) \o Concat(Tail(ss))

RECURSIVE Join(_, _)
\* sep.join(parts) of Python
Join(sep, parts) ==
    IF parts = <<>> THEN <<>>
    ELSE IF Len(parts) = 1 THEN parts[1]
    ELSE parts[1] \o sep \o Join(sep, Tail(parts))

Whitespace == {" ", "\n", "\t"}

RECURSIVE LStrip(_)
LStrip(s) == IF s # <<>> /\ Head(s) \in Whitespace THEN LStrip(Tail(s)) ELSE s

RECURSIVE RStrip(_)
RStrip(s) ==
    IF s # <<>> /\ s[Len(s)] \in Whitespace THEN RStrip(SubSeq(s, 1, Len(s) - 1)) ELSE s

\* str.strip(): leading and trailing whitespace removed
Strip(s) == RStrip(LStrip(s))

\* str.lower() on the letters file suffixes are written with
LowerChar(c) ==
    CASE c = "P" -> "p" [] c = "D" -> "d" [] c = "F" -> "f" [] c = "N" -> "n"
      [] c = "G" -> "g" [] c = "J" -> "j" [] c = "T" -> "t" [] c = "I" -> "i"
      [] c = "E" -> "e" [] c = "O" -> "o" [] c = "C" -> "c" [] c = "X" -> "x"
      [] OTHER -> c

Lower(s) == [i \in 1..Len(s) |-> LowerChar(s[i])]

Abs(n) == IF n < 0 THEN -n ELSE n

RECURSIVE Gcd(_, _)
Gcd(a, b) == IF b = 0 THEN a ELSE Gcd(b, a % b)

\* the fraction n/d (d > 0) in lowest terms
Rat(n, d) ==
    LET g == Gcd(Abs(n), d)
    IN  <<n \div g, d \div g>>

RatAdd(a, b) == Rat(a[1] * b[2] + b[1] * a[2], a[2] * b[2])

RatDivInt(a, k) == Rat(a[1], a[2] * k)

RECURSIVE RatSum(_)
\* sum(xs) of Python over a list of floats, starting from 0
RatSum(xs) == IF xs = <<>> THEN <<0, 1>> ELSE RatAdd(Head(xs), RatSum(Tail(xs)))

RECURSIVE SelectSeqOf(_, _)
\* the subsequence of xs whose elements satisfy the set membership
SelectSeqOf(xs, S) ==
    IF xs = <<>> THEN <<>>
    ELSE IF Head(xs) \in S THEN <<Head(xs)>> \o SelectSeqOf(Tail(xs), S)
    ELSE SelectSeqOf(Tail(xs), S)

\* all sequences over S of length 0..n
SeqsUpTo(S, n) == UNION {[1..k -> S] : k \in 0..n}

-----------------------------------------------------------------------------
(* The OCR engine: src/ocr_classifier/ocr.py                               *)

\* file names handed to OCREngine.run
P_pdf == <<"a", ".", "p", "d", "f">>
P_PDF == <<"a", ".", "P", "D", "F">>
P_png == <<"a", ".", "p", "n", "g">>
P_JPG == <<"a", ".", "J", "P", "G">>
P_jpeg == <<"a", ".", "j", "p", "e", "g">>
P_tiff == <<"a", ".", "t", "i", "f", "f">>
P_docx == <<"a", ".", "d", "o", "c", "x">>
P_bare == <<"a">>

Paths == {P_pdf, P_PDF, P_png, P_JPG, P_jpeg, P_tiff, P_docx, P_bare}

RECURSIVE RFind(_, _)
\* str.rfind(c): the 0-based index of the last c in s, -1 if there is none
RFind(s, c) ==
    IF s = <<>> THEN -1
    ELSE IF s[Len(s)] = c THEN Len(s) - 1
    ELSE RFind(SubSeq(s, 1, Len(s) - 1), c)

\* pathlib's PurePath.suffix of a file name
Suffix(name) ==
    LET i == RFind(name, ".")
    IN  IF 0 < i /\ i < Len(name) - 1 THEN SubSeq(name, i + 1, Len(name)) ELSE <<>>

PdfSuffix == <<".", "p", "d", "f">>

ImageSuffixes ==
    { <<".", "p", "n", "g">>, <<".", "j", "p", "g">>,
      <<".", "j", "p", "e", "g">>, <<".", "t", "i", "f", "f">> }

S_Facture == <<"F", "a", "c", "t", "u", "r", "e">>

\* a confidence cell of image_to_data: a number, or a value float() rejects
\* (val / den is the number: image_to_data gives ints or floats)
Frac(n, d) == [num |-> TRUE, val |-> n, den |-> d]
Num(v) == Frac(v, 1)
NotNum == [num |-> FALSE, val |-> 0, den |-> 1]

\* what pytesseract.image_to_data(..., output_type=DICT) returns for an image
ImgFacture == [text |-> <<S_Facture>>, conf |-> <<Num(92)>>]
ImgBlank == [text |-> << <<>>, <<" ">> >>, conf |-> <<Num(-1), Num(-1)>>]
ImgMixed ==
    [text |-> << <<" ">>, <<"T">>, <<"V", "A">> >>, conf |-> <<Num(-1), Num(0), Num(95)>>]
ImgNoConf == [text |-> << <<"T">> >>, conf |-> <<NotNum>>]

Images == {ImgFacture, ImgBlank, ImgMixed, ImgNoConf}

OCRPageResult(page_number, text, confidence) ==
    [page_number |-> page_number, text |-> text, confidence |-> confidence]

\* zip(texts, confs): pairs up to the shorter list
Zip(texts, confs) ==
    LET n == IF Len(texts) < Len(confs) THEN Len(texts) ELSE Len(confs)
    IN  [i \in 1..n |-> [text |-> texts[i], conf |-> confs[i]]]

RECURSIVE TextLines(_)
\* ocr.py 102-103: the tokens whose strip() is not empty
TextLines(tokens) ==
    IF tokens = <<>> THEN <<>>
    ELSE (IF Strip(Head(tokens).text) # <<>> THEN <<Head(tokens).text>> ELSE <<>>)
         \o TextLines(Tail(tokens))

RECURSIVE Confidences_FromZero(_)
\* the filter written conf_value >= 0
Confidences_FromZero(tokens) ==
    IF tokens = <<>> THEN <<>>
    ELSE (IF Head(tokens).conf.num /\ Head(tokens).conf.val >= 0
             THEN <<Rat(Head(tokens).conf.val, Head(tokens).conf.den)>> ELSE <<>>)
         \o Confidences_FromZero(Tail(tokens))

RECURSIVE Confidences(_)
\* ocr.py 104-109: float(conf) of the cells that convert and are > -1
Confidences(tokens) ==
    IF tokens = <<>> THEN <<>>
    ELSE (IF Head(tokens).conf.num /\ Head(tokens).conf.val > -Head(tokens).conf.den
             THEN <<Rat(Head(tokens).conf.val, Head(tokens).conf.den)>> ELSE <<>>)
         \o Confidences(Tail(tokens))

\* ocr.py 111, 131: sum(confidences) / len(confidences)
Mean(confidences) == RatDivInt(RatSum(confidences), Len(confidences))

\* OCREngine._run_on_pil_image; data is image_to_data's answer for the image
RunOnPilImage(data, page_number) ==
    LET tokens == Zip(data.text, data.conf)
        confidences == Confidences(tokens)
        mean_confidence == IF confidences # <<>> THEN Mean(confidences) ELSE NoneValue
    IN  OCRPageResult(page_number, Join(<<NL>>, TextLines(tokens)), mean_confidence)

\* what a call returns or raises, with the external steps it took, in order
Outcome(status, result, steps) == [status |-> status, result |-> result, steps |-> steps]

\* a file of the file system: missing, or holding one or more page images
\* (a raster image holds one frame or, as a multi-frame TIFF, several)
MissingFile == [exists |-> FALSE, frames |-> <<>>]

Files ==
    {MissingFile}
    \cup {[exists |-> TRUE, frames |-> d] : d \in SeqsUpTo(Images, MaxPages) \ {<<>>}}

\* pdf2image.convert_from_path: one image per page, in page order
ConvertFromPath(file) == file.frames

\* PIL.Image.open: the image, at its first frame
ImageOpen(file) == file.frames[1]

\* _run_on_pdf numbering the pages from 0: page_number=index
RunOnPdf_ZeroBased(file, hasPdf2image) ==
    IF ~hasPdf2image THEN Outcome("RuntimeError", <<>>, <<>>)
    ELSE LET rasters == ConvertFromPath(file) IN
         Outcome("ok",
                 [i \in 1..Len(rasters) |-> RunOnPilImage(rasters[i], i - 1)],
                 <<"convert_from_path">> \o [i \in 1..Len(rasters) |-> "image_to_data"])

\* _run_on_pdf degrading to an empty page list when pdf2image is missing
RunOnPdf_SkipsSilently(file, hasPdf2image) ==
    IF ~hasPdf2image THEN Outcome("ok", <<>>, <<>>)
    ELSE LET rasters == ConvertFromPath(file) IN
         Outcome("ok",
                 [i \in 1..Len(rasters) |-> RunOnPilImage(rasters[i], i)],
                 <<"convert_from_path">> \o [i \in 1..Len(rasters) |-> "image_to_data"])

\* OCREngine._run_on_pdf
RunOnPdf(file, hasPdf2image) ==
    IF ~hasPdf2image THEN Outcome("RuntimeError", <<>>, <<>>)
    ELSE LET rasters == ConvertFromPath(file) IN
         Outcome("ok",
                 [i \in 1..Len(rasters) |-> RunOnPilImage(rasters[i], i)],
                 <<"convert_from_path">> \o [i \in 1..Len(rasters) |-> "image_to_data"])

\* OCREngine._run_on_image
RunOnImage(file, page_number, hasPillow) ==
    IF ~hasPillow THEN Outcome("RuntimeError", <<>>, <<>>)
    ELSE Outcome("ok", RunOnPilImage(ImageOpen(file), page_number),
                 <<"Image.open", "image_to_data">>)

\* OCREngine.run with the suffix dispatched before the existence test
OCRRun_SuffixFirst(document_path, file, hasPillow, hasPdf2image) ==
    LET suffix == Lower(Suffix(document_path))
    IN  IF suffix # PdfSuffix /\ suffix \notin ImageSuffixes
          THEN Outcome("ValueError", <<>>, <<>>)
        ELSE IF ~file.exists THEN Outcome("FileNotFoundError", <<>>, <<"exists">>)
        ELSE IF suffix = PdfSuffix
          THEN LET r == RunOnPdf(file, hasPdf2image)
               IN  Outcome(r.status, r.result, <<"exists">> \o r.steps)
        ELSE LET r == RunOnImage(file, 1, hasPillow)
             IN  Outcome(r.status,
                         IF r.status = "ok" THEN <<r.result>> ELSE <<>>,
                         <<"exists">> \o r.steps)

\* OCREngine.run with every suffix that is not .pdf opened as an image
OCRRun_OpenAnything(document_path, file, hasPillow, hasPdf2image) ==
    IF ~file.exists THEN Outcome("FileNotFoundError", <<>>, <<"exists">>)
    ELSE LET suffix == Lower(Suffix(document_path))
         IN  IF suffix = PdfSuffix
               THEN LET r == RunOnPdf(file, hasPdf2image)
                    IN  Outcome(r.status, r.result, <<"exists">> \o r.steps)
             ELSE LET r == RunOnImage(file, 1, hasPillow)
                  IN  Outcome(r.status,
                              IF r.status = "ok" THEN <<r.result>> ELSE <<>>,
                              <<"exists">> \o r.steps)

\* OCREngine.run
OCRRun(document_path, file, hasPillow, hasPdf2image) ==
    IF ~file.exists THEN Outcome("FileNotFoundError", <<>>, <<"exists">>)
    ELSE LET suffix == Lower(Suffix(document_path))
         IN  IF suffix = PdfSuffix
               THEN LET r == RunOnPdf(file, hasPdf2image)
                    IN  Outcome(r.status, r.result, <<"exists">> \o r.steps)
             ELSE IF suffix \in ImageSuffixes
               THEN LET r == RunOnImage(file, 1, hasPillow)
                    IN  Outcome(r.status,
                                IF r.status = "ok" THEN <<r.result>> ELSE <<>>,
                                <<"exists">> \o r.steps)
             ELSE Outcome("ValueError", <<>>, <<"exists">>)

\* aggregate_text that leaves out the pages without text
AggregateText_SkipEmpty(results) ==
    Join(<<NL, NL>>,
         SelectSeqOf([i \in 1..Len(results) |-> results[i].text],
                     {results[i].text : i \in 1..Len(results)} \ {<<>>}))

\* OCREngine.aggregate_text
AggregateText(results) ==
    Join(<<NL, NL>>, [i \in 1..Len(results) |-> results[i].text])

RECURSIVE PresentConfidences(_)
\* ocr.py 128: the confidences that are not None, in page order
PresentConfidences(results) ==
    IF results = <<>> THEN <<>>
    ELSE (IF Head(results).confidence # NoneValue THEN <<Head(results).confidence>> ELSE <<>>)
         \o PresentConfidences(Tail(results))

\* aggregate_confidence that divides by the number of pages
AggregateConfidence_AllPages(results) ==
    LET confidences == PresentConfidences(results)
    IN  IF confidences = <<>> THEN NoneValue
        ELSE RatDivInt(RatSum(confidences), Len(results))

\* OCREngine.aggregate_confidence
AggregateConfidence(results) ==
    LET confidences == PresentConfidences(results)
    IN  IF confidences = <<>> THEN NoneValue ELSE Mean(confidences)

\* the page lists handed to the aggregators: what run can return for some document
PageSeqs ==
    { [i \in 1..Len(d) |-> RunOnPilImage(d[i], i)] : d \in SeqsUpTo(Images, MaxPages) }

OcrCall(op, arg, file, out) ==
    [op |-> op, arg |-> arg, file |-> file,
     status |-> out.status, result |-> out.result, steps |-> out.steps]

\* OCREngine.__init__
Construct(language) ==
    /\ IF ~pytesseract
         THEN /\ engine' = engine
              /\ ocr' = OcrCall("__init__", <<>>, MissingFile, Outcome("RuntimeError", <<>>, <<>>))
         ELSE /\ engine' = [language |-> language, dpi |-> 300]
              /\ ocr' = OcrCall("__init__", <<>>, MissingFile, Outcome("ok", <<>>, <<>>))
    /\ UNCHANGED <<pytesseract, convert_from_path, clfVars, pipe>>

\* a call of run on the constructed engine; file is what the path names
\* (Image is imported together with pytesseract, ocr.py 15-20)
Run(document_path, file) ==
    /\ engine # NoneValue
    /\ ocr' = OcrCall("run", document_path, file,
                      OCRRun(document_path, file, pytesseract, convert_from_path))
    /\ UNCHANGED <<pytesseract, convert_from_path, engine, clfVars, pipe>>

\* a call of the static method aggregate_text
CallAggregateText(results) ==
    /\ ocr' = OcrCall("aggregate_text", results, MissingFile,
                      Outcome("ok", AggregateText(results), <<>>))
    /\ UNCHANGED <<pytesseract, convert_from_path, engine, clfVars, pipe>>

\* a call of the static method aggregate_confidence
CallAggregateConfidence(results) ==
    /\ ocr' = OcrCall("aggregate_confidence", results, MissingFile,
                      Outcome("ok", AggregateConfidence(results), <<>>))
    /\ UNCHANGED <<pytesseract, convert_from_path, engine, clfVars, pipe>>

OcrNext ==
    \/ \E language \in {"fra", "eng"} : Construct(language)
    \/ \E p \in Paths, file \in Files : Run(p, file)
    \/ \E results \in PageSeqs : CallAggregateText(results)
    \/ \E results \in PageSeqs : CallAggregateConfidence(results)

-----------------------------------------------------------------------------
(* The classifier: src/ocr_classifier/classifier.py                        *)
(*                                                                         *)
(* The tensors of the tokenizer, the encoder and the classification head   *)
(* are opaque to the program: it hands them to the libraries and stores    *)
(* what comes back.  They are small integers here, and the forward pass is *)
(* a fixed function of the tokenizer, the encoder parameters, the head     *)
(* parameters and the text that depends on each of the four.  An optimizer *)
(* step may leave any parameter values behind.  exp is 2^x, so that        *)
(* softmax is an exact fraction.                                           *)

Inst == {"A", "B"}

Dirs == {"modele"}

LabelLists == { <<"facture", "autre">> }

EncoderParams == {0, 1}

HeadParams == {[weight |-> w, bias |-> b] : w \in {0, 1}, b \in {0, 1}}

S_TVA == <<"T", "V", "A">>

\* the texts of the data sets, by position
ExampleTexts == <<S_Facture, S_TVA>>

TextsFor(n) == [i \in 1..n |-> ExampleTexts[((i - 1) % Len(ExampleTexts)) + 1]]

\* classifier.py 74: batch_size
BatchSize == 8

\* classifier.py 57: max_length
MaxLength == 512

\* classifier.py 49: {idx: label for idx, label in enumerate(label_names)}
Id2Label(label_names) == [idx \in 0..(Len(label_names) - 1) |-> label_names[idx + 1]]

\* classifier.py 50: {label: idx for ...}; a repeated label keeps its last index
Label2Id(label_names) ==
    [label \in {label_names[i] : i \in 1..Len(label_names)} |->
        CHOOSE idx \in 0..(Len(label_names) - 1) :
            /\ label_names[idx + 1] = label
            /\ \A j \in 0..(Len(label_names) - 1) : label_names[j + 1] = label => j <= idx]

\* CamembertModel.from_pretrained(pretrained_model): the weights of that model
PretrainedEncoder(pretrained_model) == IF pretrained_model = "camembert-base" THEN 0 ELSE 1

\* CamembertClassifier.__init__: the pretrained encoder is in eval mode
\* (from_pretrained), the head is initialised at random
NewClassifier(label_names, pretrained_model, head) ==
    [label_names |-> label_names,
     id2label |-> Id2Label(label_names),
     label2id |-> Label2Id(label_names),
     tokenizer |-> pretrained_model,
     encoder |-> PretrainedEncoder(pretrained_model),
     classifier_head |-> head,
     training |-> FALSE]

\* the vocabulary id a tokenizer gives a character
Vocab(tokenizer, c) ==
    IF tokenizer = "camembert-base"
      THEN (CASE c = "F" -> 1 [] c = "T" -> 2 [] OTHER -> 0)
      ELSE (CASE c = "F" -> 2 [] c = "T" -> 1 [] OTHER -> 0)

\* CamembertClassifier.encode, for one text of the batch: truncated to max_length
\* (padding to the longest of the batch is masked out of the forward pass)
Encode(tokenizer, text, max_length) ==
    LET n == IF Len(text) < max_length THEN Len(text) ELSE max_length
    IN  [i \in 1..n |-> Vocab(tokenizer, text[i])]

RECURSIVE SumSeq(_)
SumSeq(xs) == IF xs = <<>> THEN 0 ELSE Head(xs) + SumSeq(Tail(xs))

\* outputs.last_hidden_state[:, 0, :] of the encoder in eval mode
ClsEmbedding(encoder, input_ids) == (encoder + SumSeq(input_ids)) % 3

\* the embeddings a forward pass can give: dropout is active in training mode
Embeddings(c, input_ids) ==
    IF c.training THEN 0..2 ELSE {ClsEmbedding(c.encoder, input_ids)}

\* self.classifier_head(cls_embedding): one logit per label id
Logits(head, e, n) == [i \in 0..(n - 1) |-> head.weight * 2 * ((e + i) % n) + head.bias * i]

RECURSIVE SumOverIds(_, _)
\* the sum of f[i] over the ids in S
SumOverIds(S, f) ==
    IF S = {} THEN 0
    ELSE LET i == CHOOSE j \in S : TRUE IN f[i] + SumOverIds(S \ {i}, f)

RECURSIVE Pow2(_)
Pow2(k) == IF k = 0 THEN 1 ELSE 2 * Pow2(k - 1)

RatLess(a, b) == a[1] * b[2] < b[1] * a[2]

\* torch.nn.functional.softmax(logits, dim=1)
Softmax(logits) ==
    LET total == SumOverIds(DOMAIN logits, [i \in DOMAIN logits |-> Pow2(logits[i])])
    IN  [i \in DOMAIN logits |-> Rat(Pow2(logits[i]), total)]

\* torch.argmax / the index torch.max returns: the first maximal entry
Argmax(values) ==
    CHOOSE i \in DOMAIN values :
        /\ \A j \in DOMAIN values : values[j] <= values[i]
        /\ \A j \in DOMAIN values : values[j] = values[i] => i <= j

ArgmaxRat(values) ==
    CHOOSE i \in DOMAIN values :
        /\ \A j \in DOMAIN values : ~RatLess(values[i], values[j])
        /\ \A j \in DOMAIN values : values[j] = values[i] => i <= j

ClassificationResult(label, score) == [label |-> label, score |-> score]

\* predict re-initialising the classification head
PredictMode_ResetsHead(c) ==
    [c EXCEPT !.training = FALSE, !.classifier_head = [weight |-> 0, bias |-> 0]]

\* predict without the two eval() calls
PredictMode_NoEval(c) == c

\* classifier.py 147-148: predict puts the encoder and the head in eval mode
PredictMode(c) == [c EXCEPT !.training = FALSE]

\* classifier.py 149-156, for the embedding e the encoder gave
PredictFrom(c, e) ==
    LET logits == Logits(c.classifier_head, e, Len(c.label_names))
        probabilities == Softmax(logits)
        label_id == ArgmaxRat(probabilities)
    IN  ClassificationResult(c.id2label[label_id], probabilities[label_id])

\* what predict(text) can return on an instance with attributes c
PredictResults(c, text) ==
    LET m == PredictMode(c)
    IN  {PredictFrom(m, e) : e \in Embeddings(m, Encode(m.tokenizer, text, MaxLength))}

\* Optional values that are records: <<>> is None, <<x>> is x
Some(x) == <<x>>

RatMul(a, b) == Rat(a[1] * b[1], a[2] * b[2])

\* a / b for b > 0
RatDiv(a, b) == Rat(a[1] * b[2], a[2] * b[1])

\* how many positions i of the two lists have ys[i] = y and ps[i] = p, for
\* the truth values wanted (t: ys[i] = l, q: ps[i] = l)
CountWhere(ys, ps, l, t, q) ==
    Cardinality({i \in 1..Len(ys) : ((ys[i] = l) = t) /\ ((ps[i] = l) = q)})

\* sklearn's f1-score of class l with zero_division=0
F1Score(y_true, y_pred, l) ==
    LET tp == CountWhere(y_true, y_pred, l, TRUE, TRUE)
        fp == CountWhere(y_true, y_pred, l, FALSE, TRUE)
        fn == CountWhere(y_true, y_pred, l, TRUE, FALSE)
        precision == IF tp + fp = 0 THEN <<0, 1>> ELSE Rat(tp, tp + fp)
        recall == IF tp + fn = 0 THEN <<0, 1>> ELSE Rat(tp, tp + fn)
    IN  IF RatAdd(precision, recall) = <<0, 1>> THEN <<0, 1>>
        ELSE RatDiv(RatMul(<<2, 1>>, RatMul(precision, recall)), RatAdd(precision, recall))

RECURSIVE SortedSeq(_)
\* the integers of S in increasing order
SortedSeq(S) ==
    IF S = {} THEN <<>>
    ELSE LET m == CHOOSE x \in S : \A y \in S : x <= y IN <<m>> \o SortedSeq(S \ {m})

\* the keys classification_report adds after the classes
ReportAverages == {"accuracy", "macro avg", "weighted avg"}

\* sklearn.metrics.classification_report(y_true, y_pred, target_names=...,
\* zero_division=0, output_dict=True), without the labels parameter: the
\* classes are the sorted values present in y_true or y_pred, and their
\* number must be that of target_names.  Each key is given its f1-score
\* (the accuracy for "accuracy").
ClassificationReport(y_true, y_pred, target_names) ==
    LET labels == SortedSeq({y_true[i] : i \in 1..Len(y_true)} \cup {y_pred[i] : i \in 1..Len(y_pred)})
        classKeys == {target_names[k] : k \in 1..Len(target_names)}
        \* rows are collected in a dict: of two rows with one name the last is kept
        ClassOf(key) == labels[CHOOSE k \in 1..Len(target_names) :
                                  /\ target_names[k] = key
                                  /\ \A j \in 1..Len(target_names) : target_names[j] = key => j <= k]
        f1 == [k \in 1..Len(labels) |-> F1Score(y_true, y_pred, labels[k])]
        support == [k \in 1..Len(labels) |-> Cardinality({i \in 1..Len(y_true) : y_true[i] = labels[k]})]
        correct == Cardinality({i \in 1..Len(y_true) : y_true[i] = y_pred[i]})
    IN  IF Len(labels) # Len(target_names) THEN Outcome("ValueError", <<>>, <<>>)
        ELSE Outcome("ok",
                [key \in classKeys \cup ReportAverages |->
                    IF key \in classKeys THEN F1Score(y_true, y_pred, ClassOf(key))
                    ELSE IF key = "accuracy" THEN Rat(correct, Len(y_true))
                    ELSE IF key = "macro avg" THEN Mean(f1)
                    ELSE RatDivInt(RatSum([k \in 1..Len(labels) |-> RatMul(f1[k], <<support[k], 1>>)]),
                                   Len(y_true))],
                <<>>)

\* classifier.py 140: {f"{label}_f1": values["f1-score"] for label, values in
\* report.items() if label in self.label_names}
MetricsOfReport(report, label_names) ==
    LET kept == {l \in DOMAIN report : l \in {label_names[i] : i \in 1..Len(label_names)}}
    IN  [key \in {l \o "_f1" : l \in kept} |-> report[CHOOSE l \in kept : l \o "_f1" = key]]

\* classifier.py 123-131: the predicted label id of each example of the data set
\* (the data set has len(labels) examples, classifier.py 27-30)
Predictions(c, texts, n_examples) ==
    [i \in 1..n_examples |->
        Argmax(Logits(c.classifier_head,
                      ClsEmbedding(c.encoder, Encode(c.tokenizer, texts[i], MaxLength)),
                      Len(c.label_names)))]

\* a lookup that falls back to id 0: label2id.get(label, 0)
LabelIds_GetDefault(c, labels) ==
    [status |-> "ok",
     ids |-> [i \in 1..Len(labels) |->
                IF labels[i] \in DOMAIN c.label2id THEN c.label2id[labels[i]] ELSE 0]]

\* classifier.py 80, 118: [self.label2id[label] for label in labels], which
\* raises KeyError at the first label that is no key
LabelIds(c, labels) ==
    IF \E i \in 1..Len(labels) : labels[i] \notin DOMAIN c.label2id
      THEN [status |-> "KeyError", ids |-> <<>>]
    ELSE [status |-> "ok", ids |-> [i \in 1..Len(labels) |-> c.label2id[labels[i]]]]

\* CamembertClassifier.evaluate on an instance with attributes c: the
\* attributes after the call (c), the outcome, the number of examples predicted
EvaluateCall(c, texts, labels) ==
    IF LabelIds(c, labels).status # "ok"
      THEN [c |-> c, status |-> LabelIds(c, labels).status, result |-> <<>>, n_examples |-> 0]
    ELSE LET m == [c EXCEPT !.training = FALSE]
         IN  IF Len(labels) > Len(texts)
               THEN [c |-> m, status |-> "IndexError", result |-> <<>>, n_examples |-> 0]
             ELSE LET y_true == LabelIds(c, labels).ids
                      preds == Predictions(m, texts, Len(labels))
                      report == ClassificationReport(y_true, preds, m.label_names)
                  IN  IF report.status # "ok"
                        THEN [c |-> m, status |-> report.status, result |-> <<>>,
                              n_examples |-> Len(preds)]
                      ELSE [c |-> m, status |-> "ok",
                            result |-> MetricsOfReport(report.result, m.label_names),
                            n_examples |-> Len(preds)]

\* classifier.py 160-162: the three artifacts save writes
Artifacts(c) ==
    [tokenizer |-> <<c.tokenizer>>,
     encoder_pt |-> <<c.encoder>>,
     classifier_head_pt |-> Some(c.classifier_head)]

EmptyDir == [tokenizer |-> <<>>, encoder_pt |-> <<>>, classifier_head_pt |-> <<>>]

\* load without the classification head
LoadCall_EncoderOnly(c, dir) ==
    IF dir.tokenizer = <<>> THEN [c |-> c, status |-> "OSError"]
    ELSE IF dir.encoder_pt = <<>>
      THEN [c |-> [c EXCEPT !.tokenizer = dir.tokenizer[1]], status |-> "FileNotFoundError"]
    ELSE [c |-> [c EXCEPT !.tokenizer = dir.tokenizer[1], !.encoder = dir.encoder_pt[1]],
          status |-> "ok"]

\* CamembertClassifier.load from a directory holding dir
LoadCall(c, dir) ==
    IF dir.tokenizer = <<>> THEN [c |-> c, status |-> "OSError"]
    ELSE IF dir.encoder_pt = <<>>
      THEN [c |-> [c EXCEPT !.tokenizer = dir.tokenizer[1]], status |-> "FileNotFoundError"]
    ELSE IF dir.classifier_head_pt = <<>>
      THEN [c |-> [c EXCEPT !.tokenizer = dir.tokenizer[1], !.encoder = dir.encoder_pt[1]],
            status |-> "FileNotFoundError"]
    ELSE [c |-> [c EXCEPT !.tokenizer = dir.tokenizer[1],
                          !.encoder = dir.encoder_pt[1],
                          !.classifier_head = dir.classifier_head_pt[1]],
          status |-> "ok"]

\* classifier.py 92-93: the optimizer steps of epochs passes in mini-batches
TrainSteps(n_examples, epochs, batch_size) ==
    epochs * ((n_examples + batch_size - 1) \div batch_size)

\* Python's truth value of an optional list: None and [] are false
Truthy(xs) == xs # <<>>

ClfCall(inst, op, args, status, result, n_examples) ==
    [inst |-> inst, op |-> op, args |-> args, status |-> status, result |-> result,
     n_examples |-> n_examples]

NoArgs == [text |-> <<>>]

\* the instances after construction with label_names; pretrained names the
\* model each was built from and heads the head each drew
\* the pipeline's last call: nothing called yet
PipeCall(op, paths, next, acc, status, result, log) ==
    [op |-> op, paths |-> paths, next |-> next, acc |-> acc, status |-> status,
     result |-> result, log |-> log]

PipeInit == pipe = PipeCall("none", <<>>, 1, <<>>, "ok", <<>>, <<>>)

ClfInit(label_names, pretrained, heads) ==
    /\ clf = [i \in Inst |-> NewClassifier(label_names, pretrained[i], heads[i])]
    /\ disk = [d \in Dirs |-> EmptyDir]
    /\ call = ClfCall("A", "__init__", NoArgs, "ok", <<>>, 0)
    /\ savedFrom = [d \in Dirs |-> <<>>]

\* CamembertClassifier.predict
Predict(inst, text) ==
    \E r \in PredictResults(clf[inst], text) :
        /\ clf' = [clf EXCEPT ![inst] = PredictMode(clf[inst])]
        /\ call' = ClfCall(inst, "predict", [text |-> text], "ok", r, 0)
        /\ UNCHANGED <<disk, savedFrom, ocrVars, pipe>>

\* CamembertClassifier.evaluate
Evaluate(inst, texts, labels) ==
    \E ev \in {EvaluateCall(clf[inst], texts, labels)} :
        /\ clf' = [clf EXCEPT ![inst] = ev.c]
        /\ call' = ClfCall(inst, "evaluate", [texts |-> texts, labels |-> labels],
                           ev.status, ev.result, ev.n_examples)
        /\ UNCHANGED <<disk, savedFrom, ocrVars, pipe>>

\* CamembertClassifier.save
Save(inst, directory) ==
    /\ disk' = [disk EXCEPT ![directory] = Artifacts(clf[inst])]
    /\ savedFrom' = [savedFrom EXCEPT ![directory] = Some(clf[inst])]
    /\ call' = ClfCall(inst, "save", [directory |-> directory], "ok", <<>>, 0)
    /\ UNCHANGED <<clf, ocrVars, pipe>>

\* CamembertClassifier.load
Load(inst, directory) ==
    \E ld \in {LoadCall(clf[inst], disk[directory])} :
        /\ clf' = [clf EXCEPT ![inst] = ld.c]
        /\ call' = ClfCall(inst, "load", [directory |-> directory], ld.status, <<>>, 0)
        /\ UNCHANGED <<disk, savedFrom, ocrVars, pipe>>

\* classifier.py 106-114: what train does once the epochs are over, on the
\* instance with attributes trained
TrainTail(trained, eval_texts, eval_labels, output_dir) ==
    LET ev == IF Truthy(eval_texts) /\ Truthy(eval_labels)
                THEN EvaluateCall(trained, eval_texts, eval_labels)
                ELSE [c |-> trained, status |-> "ok", result |-> <<>>, n_examples |-> 0]
    IN  [c |-> ev.c, status |-> ev.status, result |-> ev.result, n_examples |-> ev.n_examples,
         saves |-> ev.status = "ok" /\ output_dir # <<>>]

\* classifier.py 90-104: the attributes the training loop can leave behind
\* after n optimizer steps: in training mode, with any parameter values once
\* a step was taken
TrainedStates(c, n) ==
    IF n = 0 THEN {[c EXCEPT !.training = TRUE]}
    ELSE {[c EXCEPT !.encoder = encoder, !.classifier_head = head, !.training = TRUE] :
            encoder \in EncoderParams, head \in HeadParams}

\* train with the evaluation run before the epochs
TrainOutcomes_EvalBeforeLoop(c, n, eval_texts, eval_labels, output_dir) ==
    {[TrainTail(trained, eval_texts, eval_labels, output_dir) EXCEPT
         !.result = TrainTail(c, eval_texts, eval_labels, output_dir).result,
         !.status = TrainTail(c, eval_texts, eval_labels, output_dir).status] :
       trained \in TrainedStates(c, n)}

\* classifier.py 90-114: what train can do after the label lookup, with n
\* optimizer steps to take
TrainOutcomes(c, n, eval_texts, eval_labels, output_dir) ==
    {TrainTail(trained, eval_texts, eval_labels, output_dir) : trained \in TrainedStates(c, n)}

\* train with save(output_dir) called before the epochs
Train_SavesBeforeEpochs(inst, train_texts, train_labels, eval_texts, eval_labels, epochs, output_dir) ==
    LET c == clf[inst]
        args == [train_texts |-> train_texts, train_labels |-> train_labels,
                 eval_texts |-> eval_texts, eval_labels |-> eval_labels,
                 epochs |-> epochs, output_dir |-> output_dir]
    IN  IF LabelIds(c, train_labels).status # "ok"
          THEN /\ call' = ClfCall(inst, "train", args, LabelIds(c, train_labels).status, <<>>, 0)
               /\ UNCHANGED <<clf, disk, savedFrom, ocrVars, pipe>>
          ELSE \E t \in TrainOutcomes(c, TrainSteps(Len(train_labels), epochs, BatchSize),
                                      eval_texts, eval_labels, output_dir) :
                 /\ clf' = [clf EXCEPT ![inst] = t.c]
                 /\ call' = ClfCall(inst, "train", args, t.status, t.result, t.n_examples)
                 /\ disk' = IF t.saves
                              THEN [disk EXCEPT ![output_dir[1]] = Artifacts(c)]
                              ELSE disk
                 /\ savedFrom' = IF t.saves
                                   THEN [savedFrom EXCEPT ![output_dir[1]] = Some(t.c)]
                                   ELSE savedFrom
                 /\ UNCHANGED <<ocrVars, pipe>>

\* train with the modules put in training mode before the label lookup
Train_LookupAfterTrainMode(inst, train_texts, train_labels, eval_texts, eval_labels, epochs, output_dir) ==
    LET c == clf[inst]
        args == [train_texts |-> train_texts, train_labels |-> train_labels,
                 eval_texts |-> eval_texts, eval_labels |-> eval_labels,
                 epochs |-> epochs, output_dir |-> output_dir]
    IN  IF LabelIds(c, train_labels).status # "ok"
          THEN /\ call' = ClfCall(inst, "train", args, LabelIds(c, train_labels).status, <<>>, 0)
               /\ clf' = [clf EXCEPT ![inst] = [c EXCEPT !.training = TRUE]]
               /\ UNCHANGED <<disk, savedFrom, ocrVars, pipe>>
          ELSE \E t \in TrainOutcomes(c, TrainSteps(Len(train_labels), epochs, BatchSize),
                                      eval_texts, eval_labels, output_dir) :
                 /\ clf' = [clf EXCEPT ![inst] = t.c]
                 /\ call' = ClfCall(inst, "train", args, t.status, t.result, t.n_examples)
                 /\ disk' = IF t.saves
                              THEN [disk EXCEPT ![output_dir[1]] = Artifacts(t.c)]
                              ELSE disk
                 /\ savedFrom' = IF t.saves
                                   THEN [savedFrom EXCEPT ![output_dir[1]] = Some(t.c)]
                                   ELSE savedFrom
                 /\ UNCHANGED <<ocrVars, pipe>>

\* CamembertClassifier.train
Train(inst, train_texts, train_labels, eval_texts, eval_labels, epochs, output_dir) ==
    LET c == clf[inst]
        args == [train_texts |-> train_texts, train_labels |-> train_labels,
                 eval_texts |-> eval_texts, eval_labels |-> eval_labels,
                 epochs |-> epochs, output_dir |-> output_dir]
    IN  IF LabelIds(c, train_labels).status # "ok"
          THEN /\ call' = ClfCall(inst, "train", args, LabelIds(c, train_labels).status, <<>>, 0)
               /\ UNCHANGED <<clf, disk, savedFrom, ocrVars, pipe>>
          ELSE \E t \in TrainOutcomes(c, TrainSteps(Len(train_labels), epochs, BatchSize),
                                      eval_texts, eval_labels, output_dir) :
                 /\ clf' = [clf EXCEPT ![inst] = t.c]
                 /\ call' = ClfCall(inst, "train", args, t.status, t.result, t.n_examples)
                 /\ disk' = IF t.saves
                              THEN [disk EXCEPT ![output_dir[1]] = Artifacts(t.c)]
                              ELSE disk
                 /\ savedFrom' = IF t.saves
                                   THEN [savedFrom EXCEPT ![output_dir[1]] = Some(t.c)]
                                   ELSE savedFrom
                 /\ UNCHANGED <<ocrVars, pipe>>

-----------------------------------------------------------------------------
(* The pipeline: src/ocr_classifier/pipeline.py                            *)

DocumentPrediction(path, ocr_pages, aggregated_text, mean_confidence, prediction) ==
    [path |-> path, ocr_pages |-> ocr_pages, aggregated_text |-> aggregated_text,
     mean_confidence |-> mean_confidence, prediction |-> prediction]

\* the classifier instance the pipeline was constructed with
PipelineClassifier == "A"

\* a process that catches the error of the OCR stage and raises its own
ProcessOutcomes_WrapsError(document_path, file, c, hasPillow, hasPdf2image) ==
    LET run == OCRRun(document_path, file, hasPillow, hasPdf2image)
    IN  IF run.status # "ok"
          THEN {[status |-> "RuntimeError", result |-> <<>>, c |-> c, predicted |-> FALSE,
                 ocr |-> OcrCall("run", document_path, file, run)]}
        ELSE LET ocr_pages == run.result
                 aggregated_text == AggregateText(ocr_pages)
                 mean_confidence == AggregateConfidence(ocr_pages)
             IN  {[status |-> "ok",
                   result |-> <<[path |-> document_path, ocr_pages |-> ocr_pages,
                                 aggregated_text |-> aggregated_text,
                                 mean_confidence |-> mean_confidence,
                                 prediction |-> prediction]>>,
                   c |-> [c EXCEPT !.training = FALSE],
                   predicted |-> TRUE,
                   ocr |-> OcrCall("aggregate_confidence", ocr_pages, MissingFile,
                                   Outcome("ok", mean_confidence, <<>>))] :
                    prediction \in PredictResults(c, aggregated_text)}

\* DocumentProcessingPipeline.process on one document: the outcomes it can
\* have, each with the last call it leaves on the OCR engine (ocr), whether
\* predict was called (predicted) and the classifier's attributes after (c)
ProcessOutcomes(document_path, file, c, hasPillow, hasPdf2image) ==
    LET run == OCRRun(document_path, file, hasPillow, hasPdf2image)
    IN  IF run.status # "ok"
          THEN {[status |-> run.status, result |-> <<>>, c |-> c, predicted |-> FALSE,
                 ocr |-> OcrCall("run", document_path, file, run)]}
        ELSE LET ocr_pages == run.result
                 aggregated_text == AggregateText(ocr_pages)
                 mean_confidence == AggregateConfidence(ocr_pages)
             IN  {[status |-> "ok",
                   result |-> Some(DocumentPrediction(document_path, ocr_pages, aggregated_text,
                                                      mean_confidence, prediction)),
                   c |-> PredictMode(c),
                   predicted |-> TRUE,
                   ocr |-> OcrCall("aggregate_confidence", ocr_pages, MissingFile,
                                   Outcome("ok", mean_confidence, <<>>))] :
                    prediction \in PredictResults(c, aggregated_text)}

\* the effect of one process on the components' variables
Processed(out) ==
    /\ ocr' = out.ocr
    /\ clf' = [clf EXCEPT ![PipelineClassifier] = out.c]
    /\ call' = IF out.predicted
                 THEN ClfCall(PipelineClassifier, "predict",
                              [text |-> out.result[1].aggregated_text], "ok",
                              out.result[1].prediction, 0)
                 ELSE call
    /\ UNCHANGED <<pytesseract, convert_from_path, engine, disk, savedFrom>>

\* a call of DocumentProcessingPipeline.process
Process(document_path, file) ==
    /\ engine # NoneValue
    /\ pipe.status # "running"
    /\ \E out \in ProcessOutcomes(document_path, file, clf[PipelineClassifier],
                                   pytesseract, convert_from_path) :
          /\ pipe' = PipeCall("process", <<document_path>>, 2, <<>>, out.status, out.result,
                              <<document_path>>)
          /\ Processed(out)

\* a call of DocumentProcessingPipeline.bulk_process: the list comprehension starts
BulkProcess(document_paths) ==
    /\ engine # NoneValue
    /\ pipe.status # "running"
    /\ pipe' = PipeCall("bulk_process", document_paths, 1, <<>>, "running", <<>>, <<>>)
    /\ UNCHANGED <<ocrVars, clfVars>>

\* a bulk_process that isolates the errors: a failing document is skipped
BulkStep_SkipFailures(file) ==
    /\ pipe.op = "bulk_process"
    /\ pipe.status = "running"
    /\ IF pipe.next > Len(pipe.paths)
         THEN /\ file = MissingFile
              /\ pipe' = [pipe EXCEPT !.status = "ok", !.result = pipe.acc, !.acc = <<>>]
              /\ UNCHANGED <<ocrVars, clfVars>>
         ELSE \E out \in ProcessOutcomes(pipe.paths[pipe.next], file, clf[PipelineClassifier],
                                         pytesseract, convert_from_path) :
                /\ pipe' = [pipe EXCEPT !.next = pipe.next + 1,
                                        !.acc = pipe.acc \o out.result,
                                        !.log = Append(pipe.log, pipe.paths[pipe.next])]
                /\ Processed(out)

\* pipeline.py 44: the comprehension takes the next path and processes it, or
\* is exhausted and the list is returned; an exception of process ends the
\* call, and the list built so far is dropped
BulkStep(file) ==
    /\ pipe.op = "bulk_process"
    /\ pipe.status = "running"
    /\ IF pipe.next > Len(pipe.paths)
         THEN /\ file = MissingFile
              /\ pipe' = [pipe EXCEPT !.status = "ok", !.result = pipe.acc, !.acc = <<>>]
              /\ UNCHANGED <<ocrVars, clfVars>>
         ELSE \E out \in ProcessOutcomes(pipe.paths[pipe.next], file, clf[PipelineClassifier],
                                         pytesseract, convert_from_path) :
                /\ pipe' = IF out.status = "ok"
                             THEN [pipe EXCEPT !.next = pipe.next + 1,
                                               !.acc = pipe.acc \o out.result,
                                               !.log = Append(pipe.log, pipe.paths[pipe.next])]
                             ELSE [pipe EXCEPT !.status = out.status,
                                               !.result = <<>>,
                                               !.acc = <<>>,
                                               !.log = Append(pipe.log, pipe.paths[pipe.next])]
                /\ Processed(out)

-----------------------------------------------------------------------------
(* Specifications.                                                         *)

ZeroHead == [weight |-> 0, bias |-> 0]

\* the classifier as constructed in the scenarios of the OCR engine
ClfIdle ==
    /\ ClfInit(<<"facture", "autre">>, [i \in Inst |-> "camembert-base"], [i \in Inst |-> ZeroHead])
    /\ PipeInit

\* the OCR module as imported with both optional libraries present
OcrIdle ==
    /\ pytesseract = TRUE
    /\ convert_from_path = TRUE
    /\ engine = NoneValue
    /\ ocr = OcrCall("none", <<>>, MissingFile, Outcome("ok", <<>>, <<>>))

\* the OCR module as imported with or without its optional libraries, no
\* engine constructed yet
OcrInit ==
    /\ pytesseract \in BOOLEAN
    /\ convert_from_path \in BOOLEAN
    /\ engine = NoneValue
    /\ ocr = OcrCall("none", <<>>, MissingFile, Outcome("ok", <<>>, <<>>))
    /\ ClfIdle

\* the OCR engine alone
SpecOCR == OcrInit /\ [][OcrNext]_vars

\* the evaluation data handed to train: none, texts without labels, and data
\* sets with both classes, one class, an unknown label
TrainEvalSets ==
    { [texts |-> <<>>, labels |-> <<>>],
      [texts |-> TextsFor(2), labels |-> <<>>],
      [texts |-> TextsFor(2), labels |-> <<"facture", "autre">>],
      [texts |-> TextsFor(1), labels |-> <<"facture">>],
      [texts |-> TextsFor(2), labels |-> <<"autre", "inconnu">>] }

OutputDirs == {<<>>} \cup {<<d>> : d \in Dirs}

TrainInput(train_labels, ev, epochs, output_dir) ==
    [train_labels |-> train_labels, eval_texts |-> ev.texts, eval_labels |-> ev.labels,
     epochs |-> epochs, output_dir |-> output_dir]

\* the train calls of the scenarios: three epochs over known labels with each
\* kind of evaluation data, with and without output_dir; an unknown training
\* label; no epoch at all
TrainInputs ==
    {TrainInput(<<"facture", "autre">>, ev, 3, <<>>) : ev \in TrainEvalSets}
    \cup {TrainInput(<<"facture", "autre">>, ev, 3, <<d>>) :
             ev \in {e \in TrainEvalSets : Len(e.labels) # 1}, d \in Dirs}
    \cup {TrainInput(<<"facture", "inconnu">>, [texts |-> <<>>, labels |-> <<>>], 3, dir) :
             dir \in OutputDirs}
    \cup {TrainInput(<<"facture", "autre">>, ev, 0, <<>>) :
             ev \in {e \in TrainEvalSets : Len(e.labels) # 1}}

PredictTexts == {S_Facture, S_TVA}

\* the label lists evaluate is called with: every list of known labels up to
\* MaxExamples, and lists with a label that is not configured
EvaluateLabels ==
    SeqsUpTo({"facture", "autre"}, MaxExamples) \cup {<<"inconnu">>, <<"facture", "inconnu">>}

ClassifierInit ==
    /\ OcrIdle
    /\ \E label_names \in LabelLists, head \in HeadParams :
          ClfInit(label_names, [i \in Inst |-> "camembert-base"],
                  [i \in Inst |-> IF i = "A" THEN head ELSE ZeroHead])
    /\ PipeInit

ClassifierNext ==
    \/ \E in \in TrainInputs :
          Train("A", TextsFor(Len(in.train_labels)), in.train_labels, in.eval_texts,
                in.eval_labels, in.epochs, in.output_dir)
    \/ \E labels \in EvaluateLabels : Evaluate("A", TextsFor(Len(labels)), labels)
    \/ \E text \in PredictTexts : Predict("A", text)
    \/ \E d \in Dirs : Save("A", d)
    \/ \E d \in Dirs : Load("A", d)

\* one classifier instance through its life
SpecClassifier == ClassifierInit /\ [][ClassifierNext]_vars

\* A trains and saves; B, built from another copy of the pretrained model with
\* its own vocabulary and the same label list, loads
PersistInit ==
    /\ OcrIdle
    /\ \E label_names \in LabelLists, headA \in HeadParams, headB \in HeadParams :
          ClfInit(label_names,
                  [i \in Inst |-> IF i = "A" THEN "camembert-base" ELSE "camembert-local"],
                  [i \in Inst |-> IF i = "A" THEN headA ELSE headB])
    /\ PipeInit

PersistNext ==
    \/ \E output_dir \in OutputDirs :
          Train("A", TextsFor(2), <<"facture", "autre">>, <<>>, <<>>, 3, output_dir)
    \/ \E d \in Dirs : Save("A", d)
    \/ \E d \in Dirs : Load("B", d)
    \/ \E i \in Inst, text \in PredictTexts : Predict(i, text)

SpecPersist == PersistInit /\ [][PersistNext]_vars

\* what the recognizer can report for a token: a text, blank or not, and a
\* confidence cell: the sentinel -1, 0, a float between them, a percentage, a
\* number above 100, a cell that is no number
TokenTexts == {<<>>, <<" ">>, <<"T">>, <<" ", "T">>}

TokenConfs == {Num(-1), Num(0), Frac(-1, 2), Num(95), Num(150), NotNum}

TokenData ==
    { [text |-> [i \in 1..Len(t) |-> t[i].text], conf |-> [i \in 1..Len(t) |-> t[i].conf]] :
        t \in SeqsUpTo([text : TokenTexts, conf : TokenConfs], MaxTokens) }

ExtractInit ==
    /\ pytesseract = TRUE
    /\ convert_from_path = TRUE
    /\ engine = NoneValue
    /\ ocr = OcrCall("none", <<>>, MissingFile, Outcome("ok", <<>>, <<>>))
    /\ ClfIdle

\* an engine is constructed, runs on one document, and the next is constructed
ExtractNext ==
    \/ Construct("fra")
    \/ /\ ocr.op = "__init__"
       /\ \E data \in TokenData :
             \/ Run(P_png, [exists |-> TRUE, frames |-> <<data>>])
             \/ Run(P_pdf, [exists |-> TRUE, frames |-> <<data, ImgFacture>>])

\* run over every token list of up to MaxTokens tokens
SpecExtract == ExtractInit /\ [][ExtractNext]_vars

\* the label lists the constructor accepts: any non-empty list of names
AnyLabelLists == SeqsUpTo({"facture", "autre"}, MaxLabels) \ {<<>>}

\* a classifier constructed with any of these lists, then used
LabelsInit ==
    /\ OcrIdle
    /\ \E label_names \in AnyLabelLists, head \in HeadParams :
          ClfInit(label_names, [i \in Inst |-> "camembert-base"],
                  [i \in Inst |-> IF i = "A" THEN head ELSE ZeroHead])
    /\ PipeInit

LabelsNext ==
    \/ \E train_labels \in {<<"facture">>, <<"autre", "facture">>},
          ev \in {[texts |-> <<>>, labels |-> <<>>],
                  [texts |-> TextsFor(1), labels |-> <<"facture">>]},
          output_dir \in OutputDirs :
          Train("A", TextsFor(Len(train_labels)), train_labels, ev.texts, ev.labels, 1,
                output_dir)
    \/ \E labels \in {<<"facture">>, <<"facture", "autre">>} :
          Evaluate("A", TextsFor(Len(labels)), labels)
    \/ \E text \in PredictTexts : Predict("A", text)
    \/ \E d \in Dirs : Save("A", d)
    \/ \E d \in Dirs : Load("A", d)

SpecLabels == LabelsInit /\ [][LabelsNext]_vars

\* the documents of the pipeline's scenarios
PipePaths == {P_pdf, P_png, P_docx}

PipeFiles ==
    { MissingFile,
      [exists |-> TRUE, frames |-> <<ImgFacture>>],
      [exists |-> TRUE, frames |-> <<ImgMixed, ImgBlank>>] }

\* the pipeline over a constructed engine and a classifier in any state
PipelineInit ==
    /\ pytesseract = TRUE
    /\ convert_from_path \in BOOLEAN
    /\ engine = [language |-> "fra", dpi |-> 300]
    /\ ocr = OcrCall("__init__", <<>>, MissingFile, Outcome("ok", <<>>, <<>>))
    /\ \E label_names \in LabelLists, head \in HeadParams :
          ClfInit(label_names, [i \in Inst |-> "camembert-base"],
                  [i \in Inst |-> IF i = "A" THEN head ELSE ZeroHead])
    /\ PipeInit

PipelineNext ==
    \/ \E p \in PipePaths, file \in PipeFiles : Process(p, file)
    \/ \E paths \in SeqsUpTo(PipePaths, MaxDocs) : BulkProcess(paths)
    \/ \E file \in PipeFiles : BulkStep(file)

SpecPipeline == PipelineInit /\ [][PipelineNext]_vars

-----------------------------------------------------------------------------
(* The error taxonomy of the design, as the Python exceptions raised.      *)

NotFound == "FileNotFoundError"
UnsupportedFormat == "ValueError"
ResourceUnavailable == "RuntimeError"
LabelLookupError == "KeyError"

-----------------------------------------------------------------------------
(* Claims about the OCR engine.                                            *)

RECURSIVE SumLen(_)
SumLen(texts) == IF texts = <<>> THEN 0 ELSE Len(Head(texts)) + SumLen(Tail(texts))

\* out is the texts, in order, with exactly <<NL, NL>> between neighbours:
\* stated by positions, not by the join that computes it
IsBlankLineJoin(out, texts) ==
    LET n == Len(texts)
        Off(i) == SumLen(SubSeq(texts, 1, i - 1)) + 2 * (i - 1)
    IN  /\ Len(out) = (IF n = 0 THEN 0 ELSE SumLen(texts) + 2 * (n - 1))
        /\ \A i \in 1..n : SubSeq(out, Off(i) + 1, Off(i) + Len(texts[i])) = texts[i]
        /\ \A i \in 1..(n - 1) :
              /\ out[Off(i) + Len(texts[i]) + 1] = NL
              /\ out[Off(i) + Len(texts[i]) + 2] = NL

PageTexts(results) == [i \in 1..Len(results) |-> results[i].text]

\* C1: for every sequence of N page results, aggregate_text returns exactly
\* the N page texts in the given order with the separator "\n\n" between
\* neighbours (N-1 separators; an empty page text keeps its separator).
C1_AggregateTextJoinsPages ==
    ocr.op = "aggregate_text" => IsBlankLineJoin(ocr.result, PageTexts(ocr.arg))

\* C1 witness: the pages "Facture", "" were aggregated into "Facture\n\n".
C1_Witness ==
    /\ ocr.op = "aggregate_text"
    /\ PageTexts(ocr.arg) = <<S_Facture, <<>> >>
    /\ ocr.result = S_Facture \o <<NL, NL>>

RECURSIVE SumOver(_, _)
\* the sum of f[i] over the finite set S of indices
SumOver(S, f) ==
    IF S = {} THEN 0
    ELSE LET i == CHOOSE j \in S : TRUE IN f[i] + SumOver(S \ {i}, f)

RECURSIVE ProdOver(_, _)
ProdOver(S, f) ==
    IF S = {} THEN 1
    ELSE LET i == CHOOSE j \in S : TRUE IN f[i] * ProdOver(S \ {i}, f)

\* r is the arithmetic mean of the fractions c[i], i in S (S not empty):
\* r * |S| * D = sum of c[i] * D, for the common denominator D
IsMeanOf(r, S, c) ==
    LET D == ProdOver(S, [i \in S |-> c[i][2]])
        scaled == [i \in S |-> c[i][1] * (D \div c[i][2])]
    IN  /\ r # NoneValue
        /\ r[2] > 0
        /\ r[1] * D * Cardinality(S) = SumOver(S, scaled) * r[2]

\* C2: aggregate_confidence returns None iff every page confidence is absent
\* (the empty sequence included); otherwise the arithmetic mean of the present
\* confidences only, absent pages not counting in the divisor.
C2_AggregateConfidenceMeanOfPresent ==
    ocr.op = "aggregate_confidence" =>
        LET pages == ocr.arg
            present == {i \in 1..Len(pages) : pages[i].confidence # NoneValue}
        IN  /\ (ocr.result = NoneValue) <=> (present = {})
            /\ present # {} =>
                  IsMeanOf(ocr.result, present, [i \in present |-> pages[i].confidence])

\* C2 witness: confidences 92 and absent were aggregated into 92.0.
C2_Witness ==
    /\ ocr.op = "aggregate_confidence"
    /\ Len(ocr.arg) = 2
    /\ ocr.arg[1].confidence = <<92, 1>>
    /\ ocr.arg[2].confidence = NoneValue
    /\ ocr.result = <<92, 1>>

\* the file names whose extension is neither PDF nor a supported raster format
UnsupportedNames == {P_docx, P_bare}

\* the steps that read, rasterize or recognize the file's content
ContentSteps == {"convert_from_path", "Image.open", "image_to_data"}

NoContentStep(steps) == \A i \in 1..Len(steps) : steps[i] \notin ContentSteps

\* C5 as stated: run on a path with an unsupported extension fails with
\* UnsupportedFormat before any decoding, rasterization, recognition or read
\* of the file content.
C5_Original ==
    (ocr.op = "run" /\ ocr.arg \in UnsupportedNames) =>
        (ocr.status = UnsupportedFormat /\ NoContentStep(ocr.steps))

\* C5 amended: run on an EXISTING file with an unsupported extension fails
\* with UnsupportedFormat, having taken no step that reads, rasterizes or
\* recognizes the file content.
C5_UnsupportedFormatOnExistingFile ==
    (ocr.op = "run" /\ ocr.arg \in UnsupportedNames /\ ocr.file.exists) =>
        (ocr.status = UnsupportedFormat /\ ocr.result = <<>> /\ NoContentStep(ocr.steps))

\* C5 witness: run was called on an existing a.docx and raised ValueError.
C5_Witness ==
    /\ ocr.op = "run"
    /\ ocr.arg = P_docx
    /\ ocr.file.exists
    /\ ocr.status = UnsupportedFormat

\* C6: run on a path that names no existing file fails with NotFound whatever
\* the extension, and no rasterization or recognition step is performed.
C6_NotFoundWhateverTheExtension ==
    (ocr.op = "run" /\ ~ocr.file.exists) =>
        (ocr.status = NotFound /\ ocr.result = <<>> /\ NoContentStep(ocr.steps))

\* C6 witness: run was called on a missing a.docx and raised FileNotFoundError.
C6_Witness ==
    /\ ocr.op = "run"
    /\ ocr.arg = P_docx
    /\ ~ocr.file.exists
    /\ ocr.status = NotFound

-----------------------------------------------------------------------------
(* Claims about the classifier.                                            *)

LabelSet(c) == {c.label_names[i] : i \in 1..Len(c.label_names)}

InUnitInterval(x) == x[2] > 0 /\ 0 <= x[1] /\ x[1] <= x[2]

\* C3: in every reachable classifier state predict(text) returns a label of
\* the configured label set and a score in [0,1], and a further predict of
\* the same text with the parameters unchanged can only return the same result.
C3_PredictLabelScoreDeterministic ==
    call.op = "predict" =>
        /\ call.result.label \in LabelSet(clf[call.inst])
        /\ InUnitInterval(call.result.score)
        /\ \A r \in PredictResults(clf[call.inst], call.args.text) : r = call.result

\* C3 witness: predict returned "autre" on an instance whose encoder was trained.
C3_Witness ==
    /\ call.op = "predict"
    /\ clf[call.inst].encoder # 0
    /\ call.result.label = "autre"
    /\ call.result.score # <<1, 1>>

\* the positions of the last train call's labels outside the label list
UnknownTrainLabels ==
    {i \in 1..Len(call.args.train_labels) :
        call.args.train_labels[i] \notin LabelSet(clf[call.inst])}

\* the calls that evaluate a data set with at least one example and known labels
EvaluatesKnownData ==
    \/ /\ call.op = "evaluate"
       /\ call.args.labels # <<>>
       /\ \A i \in 1..Len(call.args.labels) : call.args.labels[i] \in LabelSet(clf[call.inst])
    \/ /\ call.op = "train"
       /\ \A i \in 1..Len(call.args.train_labels) :
             call.args.train_labels[i] \in LabelSet(clf[call.inst])
       /\ call.args.eval_texts # <<>>
       /\ call.args.eval_labels # <<>>
       /\ \A i \in 1..Len(call.args.eval_labels) :
             call.args.eval_labels[i] \in LabelSet(clf[call.inst])

\* C7: evaluate (and train with evaluation data) returns, instead of failing,
\* a mapping with exactly one F1 entry per configured label name, each in
\* [0,1], a class with no predicted or no true instance getting 0.
C7_OneF1PerLabelNeverFails ==
    EvaluatesKnownData =>
        /\ call.status = "ok"
        /\ Cardinality(DOMAIN call.result) = Len(clf[call.inst].label_names)
        /\ \A key \in DOMAIN call.result : InUnitInterval(call.result[key])

\* C8: train returns what evaluate(eval_texts, eval_labels) gives on the
\* parameters left by the last epoch whenever evaluation data is supplied, and
\* an empty mapping whenever it is not.
C8_TrainReturnsEvaluationOfFinalParameters ==
    (call.op = "train" /\ UnknownTrainLabels = {}) =>
        IF call.args.eval_texts # <<>> /\ call.args.eval_labels # <<>>
          THEN LET ev == EvaluateCall(clf[call.inst], call.args.eval_texts, call.args.eval_labels)
               IN  call.status = ev.status /\ call.result = ev.result
          ELSE call.status = "ok" /\ call.result = <<>>

\* C8 witness: a train call over three epochs returned a non-empty F1 mapping.
C8_Witness ==
    /\ call.op = "train"
    /\ call.args.epochs = 3
    /\ call.status = "ok"
    /\ call.result # <<>>
    /\ clf[call.inst].encoder # 0

\* C9: train fails with LabelLookupError whenever an element of train_labels is
\* outside the configured label set, and evaluate does whenever an element of
\* its labels is.
C9_UnknownLabelRaisesLabelLookupError ==
    /\ (call.op = "train" /\ UnknownTrainLabels # {}) => call.status = LabelLookupError
    /\ (call.op = "evaluate"
          /\ \E i \in 1..Len(call.args.labels) :
                call.args.labels[i] \notin LabelSet(clf[call.inst]))
       => call.status = LabelLookupError

\* C9 witness: train was called with the label "inconnu" and raised KeyError.
C9_Witness ==
    /\ call.op = "train"
    /\ call.args.train_labels = <<"facture", "inconnu">>
    /\ call.status = LabelLookupError

-----------------------------------------------------------------------------
(* Persistence                                                             *)

\* C4: after a successful load(dir), the loading classifier holds the
\* tokenizer assets, the encoder parameters and the head parameters of the
\* classifier that save(dir) was called on (same label list), the directory
\* holds exactly these three artifacts, and predict gives on it what it gives
\* on the saved classifier, for every text.
C4_LoadReproducesSavedClassifier ==
    (call.op = "load" /\ call.status = "ok") =>
        LET b == clf[call.inst]
            dir == call.args.directory
        IN  /\ savedFrom[dir] # <<>>
            /\ LET a == savedFrom[dir][1]
               IN  /\ b.label_names = a.label_names
                   /\ b.tokenizer = a.tokenizer
                   /\ b.encoder = a.encoder
                   /\ b.classifier_head = a.classifier_head
                   /\ disk[dir] = Artifacts(b)
                   /\ \A text \in PredictTexts : PredictResults(b, text) = PredictResults(a, text)

\* C4 witness: B, constructed from the other pretrained copy, has loaded what
\* A saved after training: its tokenizer, encoder and head are now A's.
C4_Witness ==
    /\ call.op = "load"
    /\ call.inst = "B"
    /\ call.status = "ok"
    /\ savedFrom[call.args.directory] # <<>>
    /\ clf["B"].tokenizer = "camembert-base"
    /\ clf["B"].encoder # PretrainedEncoder("camembert-local")
    /\ clf["B"].classifier_head # ZeroHead
    /\ clf["B"].classifier_head = savedFrom[call.args.directory][1].classifier_head

-----------------------------------------------------------------------------
(* The pipeline                                                            *)

BulkFailed == pipe.op = "bulk_process" /\ pipe.status \notin {"ok", "running"}

\* C10: bulk_process processes the documents one at a time in input order; when
\* every document succeeds it returns one DocumentPrediction per path, the i-th
\* with the i-th path; when process fails on the k-th document the call fails
\* with that error, returns nothing, and processes no document after the k-th.
C10_BulkProcessInOrderFailFast ==
    /\ [](pipe.op = "bulk_process" =>
            /\ Len(pipe.log) <= Len(pipe.paths)
            /\ pipe.log = SubSeq(pipe.paths, 1, Len(pipe.log))
            /\ pipe.status = "running" =>
                  /\ Len(pipe.log) = pipe.next - 1
                  /\ pipe.result = <<>>
            /\ pipe.status = "ok" =>
                  /\ pipe.log = pipe.paths
                  /\ Len(pipe.result) = Len(pipe.paths)
                  /\ \A i \in 1..Len(pipe.paths) : pipe.result[i].path = pipe.paths[i]
            /\ BulkFailed =>
                  /\ pipe.result = <<>>
                  /\ pipe.log # <<>>
                  /\ ocr.op = "run"
                  /\ ocr.arg = pipe.paths[Len(pipe.log)]
                  /\ ocr.status = pipe.status)
    /\ [][(pipe.op = "bulk_process" /\ pipe'.op = "bulk_process" /\ pipe'.paths = pipe.paths
              /\ pipe'.log # pipe.log /\ pipe'.log # <<>>)
            => /\ pipe.status = "running"
               /\ Len(pipe.log) < Len(pipe.paths)
               /\ pipe'.log = Append(pipe.log, pipe.paths[Len(pipe.log) + 1])]_vars
    /\ [][BulkFailed => (pipe' = pipe \/ pipe'.log = <<>> \/ pipe'.op = "process")]_vars

\* C10 witness: a batch of three whose first document succeeded and whose
\* second was missing: the call failed with FileNotFoundError, returned
\* nothing, and the third document was never processed.
C10_Witness ==
    /\ BulkFailed
    /\ Len(pipe.paths) = 3
    /\ Len(pipe.log) = 2
    /\ pipe.status = NotFound
    /\ pipe.result = <<>>
    /\ call.op = "predict"

\* what process(path) left, against the stages run on the same file
ProcessedAs(document_path, file) ==
    LET run == OCRRun(document_path, file, pytesseract, convert_from_path)
    IN  IF run.status = "ok"
          THEN /\ pipe'.status = "ok"
               /\ Len(pipe'.result) = 1
               /\ LET dp == pipe'.result[1]
                  IN  /\ dp.path = document_path
                      /\ dp.ocr_pages = run.result
                      /\ dp.aggregated_text = AggregateText(dp.ocr_pages)
                      /\ dp.mean_confidence = AggregateConfidence(dp.ocr_pages)
                      /\ (dp.mean_confidence = NoneValue) <=>
                            (\A i \in 1..Len(dp.ocr_pages) :
                                dp.ocr_pages[i].confidence = NoneValue)
                      /\ dp.prediction \in
                            PredictResults(clf[PipelineClassifier], dp.aggregated_text)
                      /\ call'.op = "predict"
                      /\ call'.args.text = dp.aggregated_text
                      /\ call'.result = dp.prediction
        ELSE /\ pipe'.status = run.status
             /\ pipe'.result = <<>>
             /\ call' = call
             /\ clf' = clf
             /\ ocr'.op = "run"
             /\ ocr'.status = run.status

\* C11: process(path) returns a DocumentPrediction with the input path, the
\* pages of run, aggregate_text and aggregate_confidence of these pages and
\* predict of the aggregated text, or fails with the error of the OCR stage
\* and no record, the classifier not being called.
C11_ProcessComposesStagesOrFails ==
    [][pipe'.op = "process" =>
          \A document_path \in PipePaths, file \in PipeFiles :
             Process(document_path, file) => ProcessedAs(document_path, file)]_vars

\* C11 witness: process failed on an unsupported extension after an earlier
\* document was classified.
C11_Witness ==
    /\ pipe.op = "process"
    /\ pipe.status = UnsupportedFormat
    /\ pipe.result = <<>>
    /\ ocr.op = "run"
    /\ call.op = "predict"

-----------------------------------------------------------------------------
(* Optional capabilities of the OCR module                                 *)

-----------------------------------------------------------------------------
(* The label mappings                                                      *)

\* label2id and id2label of c are inverse bijections between the labels of
\* the list and the ids 0..n-1, in list order
InverseBijections(c) ==
    LET n == Len(c.label_names)
    IN  /\ DOMAIN c.id2label = 0..(n - 1)
        /\ DOMAIN c.label2id = {c.label_names[k] : k \in 1..n}
        /\ \A k \in 0..(n - 1) : c.id2label[k] = c.label_names[k + 1]
        /\ \A l \in DOMAIN c.label2id : c.id2label[c.label2id[l]] = l
        /\ \A k \in 0..(n - 1) : c.label2id[c.id2label[k]] = k

\* C13: for the label list given at construction, label2id and id2label are
\* inverse bijections over the ids 0..n-1 assigned in list order, whatever
\* operations the instance has gone through.
C13_LabelMappingsInverseBijections == InverseBijections(clf["A"])

\* no operation changes label_names, label2id or id2label
LabelMappingsNeverChange ==
    [][\A i \in Inst : /\ clf'[i].label_names = clf[i].label_names
                       /\ clf'[i].label2id = clf[i].label2id
                       /\ clf'[i].id2label = clf[i].id2label]_vars

-----------------------------------------------------------------------------
(* Pages of a run                                                          *)

\* C14: a successful run returns one OCRPageResult per page, numbered 1..N in
\* page order: for a raster image the one result, numbered 1, of the opened
\* image; for a PDF rasterized into N images, N results, the i-th being the
\* OCR of the i-th image with page_number i.
C14_OnePageResultPerPageInOrder ==
    (ocr.op = "run" /\ ocr.status = "ok") =>
        /\ \A i \in 1..Len(ocr.result) : ocr.result[i].page_number = i
        /\ IF Lower(Suffix(ocr.arg)) = PdfSuffix
             THEN /\ Len(ocr.result) = Len(ConvertFromPath(ocr.file))
                  /\ \A i \in 1..Len(ocr.result) :
                        ocr.result[i] = RunOnPilImage(ConvertFromPath(ocr.file)[i], i)
           ELSE /\ Lower(Suffix(ocr.arg)) \in ImageSuffixes
                /\ ocr.result = <<RunOnPilImage(ImageOpen(ocr.file), 1)>>

\* C14 witness: a two-page PDF with different pages gave two results.
C14_Witness ==
    /\ ocr.op = "run"
    /\ ocr.status = "ok"
    /\ ocr.arg = P_pdf
    /\ Len(ocr.result) = 2
    /\ ocr.result[1].text # ocr.result[2].text

-----------------------------------------------------------------------------
(* Per-page extraction                                                     *)

HasNonWhitespace(text) == \E i \in 1..Len(text) : text[i] \notin Whitespace

AboveSentinel(conf) == conf.num /\ conf.val > -conf.den

\* C15: the page text is the tokens with a non-whitespace character, in the
\* recognizer's order, joined by newlines; the page confidence is the mean of
\* exactly the token confidences strictly greater than -1 (0 kept, -1
\* excluded), and is absent iff none is.
C15_PageTextAndConfidence ==
    (ocr.op = "run" /\ ocr.status = "ok") =>
        LET data == ocr.file.frames[1]
            page == ocr.result[1]
            kept == {i \in 1..Len(data.conf) : AboveSentinel(data.conf[i])}
        IN  /\ page.text = Join(<<NL>>, SelectSeq(data.text, HasNonWhitespace))
            /\ (page.confidence = NoneValue) <=> (kept = {})
            /\ kept # {} =>
                  IsMeanOf(page.confidence, kept,
                           [i \in kept |-> <<data.conf[i].val, data.conf[i].den>>])

\* C15 witness: of a blank token at -0.5 and a token " T" at 0, the text is
\* " T" and the confidence -0.25.
C15_Witness ==
    /\ ocr.op = "run"
    /\ ocr.status = "ok"
    /\ ocr.arg = P_png
    /\ ocr.file.frames[1] = [text |-> << <<" ">>, <<" ", "T">> >>,
                              conf |-> <<Frac(-1, 2), Num(0)>>]
    /\ ocr.result[1].text = <<" ", "T">>
    /\ ocr.result[1].confidence = <<-1, 4>>

InPercentRange(x) == x[2] > 0 /\ 0 <= x[1] /\ x[1] <= 100 * x[2]

\* C16: every OCRPageResult of a run, whatever numeric confidences the
\* recognizer reports, has a confidence that is absent or within [0,100], and
\* so has aggregate_confidence over the pages of the run.
C16_ConfidenceAbsentOrPercentage ==
    (ocr.op = "run" /\ ocr.status = "ok") =>
        /\ \A i \in 1..Len(ocr.result) :
              \/ ocr.result[i].confidence = NoneValue
              \/ InPercentRange(ocr.result[i].confidence)
        /\ \/ AggregateConfidence(ocr.result) = NoneValue
           \/ InPercentRange(AggregateConfidence(ocr.result))

-----------------------------------------------------------------------------
(* Lifecycle of a classifier                                               *)

Parameters(c) == <<c.encoder, c.classifier_head>>

\* the labels of an evaluate call name every configured class, all known
CoversEveryClass(c, labels) ==
    {labels[i] : i \in 1..Len(labels)} = LabelSet(c)

\* C17: in every state reached by train, evaluate, predict, save and load
\* calls, predict has a result and evaluate on data of every class succeeds,
\* and every predict and save call that was made succeeded; predict, evaluate
\* and save leave the encoder and head parameters as they were.
C17_AlwaysUsableParametersFramed ==
    /\ [](/\ \A text \in PredictTexts : PredictResults(clf["A"], text) # {}
          /\ EvaluateCall(clf["A"], TextsFor(2), <<"facture", "autre">>).status = "ok"
          /\ call.op \in {"predict", "save"} => call.status = "ok"
          /\ (call.op = "evaluate" /\ CoversEveryClass(clf[call.inst], call.args.labels))
                => call.status = "ok")
    /\ [][call'.op \in {"predict", "evaluate", "save"} =>
             \A i \in Inst : Parameters(clf'[i]) = Parameters(clf[i])]_vars

\* C17 witness: after a train that saved, a further train and a load that
\* failed or not, evaluate succeeded on parameters other than the saved ones.
C17_Witness ==
    /\ call.op = "evaluate"
    /\ call.status = "ok"
    /\ clf["A"].encoder # 0
    /\ disk["modele"] # EmptyDir
    /\ disk["modele"].classifier_head_pt # <<clf["A"].classifier_head>>

-----------------------------------------------------------------------------
(* train and output_dir                                                    *)

\* an instance with the label list of c, built from another pretrained copy
FreshLike(c) == NewClassifier(c.label_names, "camembert-local", [weight |-> 0, bias |-> 0])

\* C18: when train with an output_dir returns, the directory holds the
\* artifacts of the instance as the last optimizer step left it, and a fresh
\* instance that loads the directory predicts as the returned one does; a
\* train call without output_dir leaves every directory as it was.
C18_TrainPersistsFinalState ==
    /\ []((call.op = "train" /\ call.status = "ok" /\ call.args.output_dir # <<>>) =>
            LET dir == disk[call.args.output_dir[1]]
                loaded == LoadCall(FreshLike(clf[call.inst]), dir)
            IN  /\ dir = Artifacts(clf[call.inst])
                /\ loaded.status = "ok"
                /\ Parameters(loaded.c) = Parameters(clf[call.inst])
                /\ \A text \in PredictTexts :
                      PredictResults(loaded.c, text) = PredictResults(clf[call.inst], text))
    /\ [][(call'.op = "train" /\ call'.args.output_dir = <<>>) => disk' = disk]_vars

\* C18 witness: a train over three epochs with evaluation data and an
\* output_dir returned, on parameters other than the pretrained ones.
C18_Witness ==
    /\ call.op = "train"
    /\ call.status = "ok"
    /\ call.args.output_dir = <<"modele">>
    /\ call.args.epochs = 3
    /\ call.result # <<>>
    /\ clf[call.inst].encoder # PretrainedEncoder("camembert-base")
    /\ clf[call.inst].classifier_head # [weight |-> 0, bias |-> 0]

-----------------------------------------------------------------------------
(* A train call that fails on its labels                                   *)

\* C19: a train call that fails because train_labels has a label outside the
\* configured label set leaves the instance as it was: no parameter is
\* updated, no mode is switched, no evaluation is run and no directory is
\* written.
C19_FailedLabelLookupChangesNothing ==
    [][(/\ call'.op = "train"
        /\ \E i \in 1..Len(call'.args.train_labels) :
              call'.args.train_labels[i] \notin LabelSet(clf[call'.inst]))
       => /\ call'.status = LabelLookupError
          /\ call'.result = <<>>
          /\ call'.n_examples = 0
          /\ clf' = clf
          /\ disk' = disk
          /\ savedFrom' = savedFrom]_vars

\* C19 witness: train with the label "inconnu" and an output_dir raised
\* KeyError on an instance in eval mode, and the directory is still empty.
C19_Witness ==
    /\ call.op = "train"
    /\ call.status = LabelLookupError
    /\ call.args.train_labels = <<"facture", "inconnu">>
    /\ call.args.output_dir = <<"modele">>
    /\ disk["modele"] = EmptyDir
    /\ ~clf[call.inst].training

=============================================================================
